---- MODULE Spec2Model ----
(***************************************************************************)
(* Model of the RISC-V JIT integer lowering routines of                    *)
(* Core/MIPS/RiscV/RiscVCompALU.cpp.  One action lowers one IR instruction *)
(* through one of the ten CompIR_* routines.  The emitted host             *)
(* instructions are executed on the host register values as they are       *)
(* emitted, so that the register cache carries both its flags and the      *)
(* 64-bit value every mapped register holds.                               *)
(*                                                                         *)
(* A 64-bit host value is a tuple of four 16-bit limbs, least significant  *)
(* first; a 32-bit IR constant is a tuple of two limbs.                    *)
(***************************************************************************)
EXTENDS Integers, Sequences, FiniteSets, TLC

VARIABLES gpr, scratch1, zbb, allowPtrMath, pre, inst, lowered, code,
          generic, maps, aborted, diag, routine, count

vars == <<gpr, scratch1, zbb, allowPtrMath, pre, inst, lowered, code,
          generic, maps, aborted, diag, routine, count>>

----------------------------------------------------------------------------
\* Number of IR instructions lowered from the entry state.  The entry state
\* (Init) ranges over the register cache states a routine can be called in,
\* so every routine is exercised on every kind of cache entry.
MaxInsts == 1

\* Host register width (RV64).
XLEN == 64

----------------------------------------------------------------------------
(* 64-bit and 32-bit two's complement arithmetic on 16-bit limbs *)

W16 == 2^16
H16 == 2^15
Ones16 == W16 - 1

Zero64 == <<0, 0, 0, 0>>
One64 == <<1, 0, 0, 0>>

\* The sign fill of a 16-bit limb: all ones when its top bit is set.
Fill(w) == IF w >= H16 THEN Ones16 ELSE 0

Add64(a, b) ==
  LET s0 == a[1] + b[1]
      s1 == a[2] + b[2] + (s0 \div W16)
      s2 == a[3] + b[3] + (s1 \div W16)
      s3 == a[4] + b[4] + (s2 \div W16)
  IN <<s0 % W16, s1 % W16, s2 % W16, s3 % W16>>

Not64(a) == <<Ones16 - a[1], Ones16 - a[2], Ones16 - a[3], Ones16 - a[4]>>

Sub64(a, b) == Add64(Add64(a, Not64(b)), One64)

\* Sign extension of the low 32 bits to 64 bits.
SExt32(a) == <<a[1], a[2], Fill(a[2]), Fill(a[2])>>

\* Zero extension of the low 32 bits to 64 bits.
ZExt32(a) == <<a[1], a[2], 0, 0>>

\* The low 32 bits, as a 32-bit value.
Low32(a) == <<a[1], a[2]>>

\* (int32_t)c of a 32-bit constant, as an integer.
S32(c) == IF c[2] >= H16 THEN (c[2] - W16) * W16 + c[1] ELSE c[2] * W16 + c[1]

\* The 32-bit value of an integer in the int32_t range.
FromS32(n) ==
  IF n >= 0 THEN <<n % W16, n \div W16>>
  ELSE LET u == n + 2^30 + 2^30 IN <<u % W16, (u \div W16) + H16>>

\* (uint32_t)-(int32_t)c: two's complement negation in 32 bits.
Neg32(c) == Low32(Sub64(Zero64, ZExt32(c)))

\* 32-bit wrapping add and subtract, carried out limb by limb.
Add32(a, b) ==
  LET s0 == a[1] + b[1]
      s1 == a[2] + b[2] + (s0 \div W16)
  IN <<s0 % W16, s1 % W16>>

Sub32(a, b) ==
  LET d0 == a[1] - b[1]
      bw == IF d0 < 0 THEN 1 ELSE 0
      d1 == a[2] - b[2] - bw
  IN <<d0 % W16, d1 % W16>>

RECURSIVE BitAnd(_, _, _)
BitAnd(x, y, n) ==
  IF n = 0 THEN 0
  ELSE (x % 2) * (y % 2) + 2 * BitAnd(x \div 2, y \div 2, n - 1)

RECURSIVE BitOr(_, _, _)
BitOr(x, y, n) ==
  IF n = 0 THEN 0
  ELSE (IF x % 2 = 1 \/ y % 2 = 1 THEN 1 ELSE 0)
       + 2 * BitOr(x \div 2, y \div 2, n - 1)

RECURSIVE BitXor(_, _, _)
BitXor(x, y, n) ==
  IF n = 0 THEN 0
  ELSE ((x + y) % 2) + 2 * BitXor(x \div 2, y \div 2, n - 1)

And64(a, b) ==
  <<BitAnd(a[1], b[1], 16), BitAnd(a[2], b[2], 16),
    BitAnd(a[3], b[3], 16), BitAnd(a[4], b[4], 16)>>
Or64(a, b) ==
  <<BitOr(a[1], b[1], 16), BitOr(a[2], b[2], 16),
    BitOr(a[3], b[3], 16), BitOr(a[4], b[4], 16)>>
Xor64(a, b) ==
  <<BitXor(a[1], b[1], 16), BitXor(a[2], b[2], 16),
    BitXor(a[3], b[3], 16), BitXor(a[4], b[4], 16)>>

\* Logical shift left by one bit, and by n bits.
Shl1(a) == Add64(a, a)

RECURSIVE Shl64(_, _)
Shl64(a, n) == IF n = 0 THEN a ELSE Shl64(Shl1(a), n - 1)

\* Arithmetic shift right by one bit, and by n bits.
Sar1(a) ==
  <<(a[1] \div 2) + (a[2] % 2) * H16,
    (a[2] \div 2) + (a[3] % 2) * H16,
    (a[3] \div 2) + (a[4] % 2) * H16,
    (a[4] \div 2) + (IF a[4] >= H16 THEN H16 ELSE 0)>>

RECURSIVE Sar64(_, _)
Sar64(a, n) == IF n = 0 THEN a ELSE Sar64(Sar1(a), n - 1)

\* The two bytes of a limb exchanged.
Swap16(w) == (w % 256) * 256 + (w \div 256)

\* The 12-bit immediate field of an I-type instruction holds the low 12 bits
\* of the operand; the hardware sign-extends it.
Imm12(c) == c[1] % 4096
SExt12(i) ==
  IF i >= 2048 THEN <<i + (W16 - 4096), Ones16, Ones16, Ones16>>
  ELSE <<i, 0, 0, 0>>

\* A value is normalized when it equals the sign extension of its low 32 bits.
IsSExt32(a) == a = SExt32(a)

----------------------------------------------------------------------------
(* Host registers and host instructions (RISC-V semantics of the emitter   *)
(* calls).  s is the state of one lowering call: the register cache, the   *)
(* scratch register, the host instructions emitted so far and counters.    *)

R(r) == [k |-> "R", r |-> r]
RPtr(r) == [k |-> "RPtr", r |-> r]
SCRATCH1 == [k |-> "SCRATCH1", r |-> 0]
R_ZERO == [k |-> "R_ZERO", r |-> 0]
NoReg == [k |-> "-", r |-> 0]
NoImm == <<0, 0>>

HostVal(s, h) ==
  CASE h.k \in {"R", "RPtr"} -> s.gpr[h.r].val
    [] h.k = "SCRATCH1" -> s.scratch1
    [] OTHER -> Zero64

HostWrite(s, h, v) ==
  CASE h.k \in {"R", "RPtr"} -> [s EXCEPT !.gpr[h.r].val = v]
    [] h.k = "SCRATCH1" -> [s EXCEPT !.scratch1 = v]
    [] OTHER -> s

\* Append one host instruction to the code buffer and apply its effect.
Emit(s, m, rd, rs1, rs2, imm, v) ==
  LET t == HostWrite(s, rd, v)
  IN [t EXCEPT !.code = Append(s.code, [m |-> m, rd |-> rd, rs1 |-> rs1,
                                        rs2 |-> rs2, imm |-> imm])]

ADDW(s, rd, rs1, rs2) ==
  Emit(s, "ADDW", rd, rs1, rs2, NoImm,
       SExt32(Add64(HostVal(s, rs1), HostVal(s, rs2))))

SUBW(s, rd, rs1, rs2) ==
  Emit(s, "SUBW", rd, rs1, rs2, NoImm,
       SExt32(Sub64(HostVal(s, rs1), HostVal(s, rs2))))

ADDI(s, rd, rs1, c) ==
  Emit(s, "ADDI", rd, rs1, NoReg, c,
       Add64(HostVal(s, rs1), SExt12(Imm12(c))))

ADDIW(s, rd, rs1, c) ==
  Emit(s, "ADDIW", rd, rs1, NoReg, c,
       SExt32(Add64(HostVal(s, rs1), SExt12(Imm12(c)))))

\* LI rd, (int32_t)c loads the sign-extended 32-bit constant.
LI(s, rd, c) == Emit(s, "LI", rd, NoReg, NoReg, c, SExt32(ZExt32(c)))

AND(s, rd, rs1, rs2) ==
  Emit(s, "AND", rd, rs1, rs2, NoImm, And64(HostVal(s, rs1), HostVal(s, rs2)))

OR(s, rd, rs1, rs2) ==
  Emit(s, "OR", rd, rs1, rs2, NoImm, Or64(HostVal(s, rs1), HostVal(s, rs2)))

XOR(s, rd, rs1, rs2) ==
  Emit(s, "XOR", rd, rs1, rs2, NoImm, Xor64(HostVal(s, rs1), HostVal(s, rs2)))

ANDI(s, rd, rs1, c) ==
  Emit(s, "ANDI", rd, rs1, NoReg, c, And64(HostVal(s, rs1), SExt12(Imm12(c))))

ORI(s, rd, rs1, c) ==
  Emit(s, "ORI", rd, rs1, NoReg, c, Or64(HostVal(s, rs1), SExt12(Imm12(c))))

XORI(s, rd, rs1, c) ==
  Emit(s, "XORI", rd, rs1, NoReg, c, Xor64(HostVal(s, rs1), SExt12(Imm12(c))))

NOT(s, rd, rs1) == Emit(s, "NOT", rd, rs1, NoReg, NoImm, Not64(HostVal(s, rs1)))

MV(s, rd, rs1) == Emit(s, "MV", rd, rs1, NoReg, NoImm, HostVal(s, rs1))

SEXT_B(s, rd, rs1) ==
  LET b == HostVal(s, rs1)[1] % 256
  IN Emit(s, "SEXT_B", rd, rs1, NoReg, NoImm,
          IF b >= 128 THEN <<b + (W16 - 256), Ones16, Ones16, Ones16>>
          ELSE <<b, 0, 0, 0>>)

SEXT_H(s, rd, rs1) ==
  LET h == HostVal(s, rs1)[1]
  IN Emit(s, "SEXT_H", rd, rs1, NoReg, NoImm, <<h, Fill(h), Fill(h), Fill(h)>>)

SLLI(s, rd, rs1, sh) ==
  Emit(s, "SLLI", rd, rs1, NoReg, <<sh, 0>>, Shl64(HostVal(s, rs1), sh))

\* SRAIW shifts the low 32 bits arithmetically and sign-extends the result.
SRAIW(s, rd, rs1, sh) ==
  Emit(s, "SRAIW", rd, rs1, NoReg, <<sh, 0>>,
       SExt32(Sar64(SExt32(HostVal(s, rs1)), sh)))

SRAI(s, rd, rs1, sh) ==
  Emit(s, "SRAI", rd, rs1, NoReg, <<sh, 0>>, Sar64(HostVal(s, rs1), sh))

\* REV8 reverses the bytes of the whole 64-bit register.
REV8(s, rd, rs1) ==
  LET a == HostVal(s, rs1)
  IN Emit(s, "REV8", rd, rs1, NoReg, NoImm,
          <<Swap16(a[4]), Swap16(a[3]), Swap16(a[2]), Swap16(a[1])>>)

----------------------------------------------------------------------------
(* Host register cache (RiscVRegCache).  An entry is                       *)
(* [loc, val, norm, dirty]: loc is "mem" (not mapped, the value lives in   *)
(* the guest context), "reg" (held in a host register) or "ptr" (held as   *)
(* a host pointer, memory base + guest value).                             *)

\* The host address of guest address 0.
MemBase == <<0, 36864, 127, 0>>

\* The 32-bit guest value an entry stands for.
GuestVal(e) == Low32(IF e.loc = "ptr" THEN Sub64(e.val, MemBase) ELSE e.val)

IsNormalized32(s, r) == s.gpr[r].loc = "reg" /\ s.gpr[r].norm

IsMappedAsPointer(s, r) == s.gpr[r].loc = "ptr"

\* Map one register into a host register.  A register in memory is loaded
\* (LW sign-extends); a pointer is turned back into a value.  Mapping for
\* writing marks it dirty and drops the stale normalization flag unless the
\* caller asks for MARK_NORM32.
MapReg(s, r, isDirty, marksNorm32) ==
  LET e == s.gpr[r]
      m == CASE e.loc = "mem" ->
                  [e EXCEPT !.loc = "reg", !.norm = TRUE, !.dirty = FALSE]
             [] e.loc = "ptr" ->
                  [e EXCEPT !.loc = "reg", !.val = Sub64(e.val, MemBase),
                            !.norm = FALSE]
             [] OTHER -> e
      f == IF isDirty THEN [m EXCEPT !.dirty = TRUE, !.norm = marksNorm32]
           ELSE m
  IN [s EXCEPT !.gpr[r] = f]

\* MapType values.
AVOID_LOAD == "AVOID_LOAD"
AVOID_LOAD_MARK_NORM32 == "AVOID_LOAD_MARK_NORM32"

MapDirtyIn(s, rd, rs, type) ==
  LET a == MapReg(s, rd, TRUE, type = AVOID_LOAD_MARK_NORM32)
      b == MapReg(a, rs, FALSE, FALSE)
  IN [b EXCEPT !.maps = s.maps + 1]

MapDirtyInIn(s, rd, rs, rt, type) ==
  LET a == MapReg(s, rd, TRUE, type = AVOID_LOAD_MARK_NORM32)
      b == MapReg(a, rs, FALSE, FALSE)
      c == MapReg(b, rt, FALSE, FALSE)
  IN [c EXCEPT !.maps = s.maps + 1]

MarkDirty(s, h, norm) ==
  [s EXCEPT !.gpr[h.r].dirty = TRUE, !.gpr[h.r].norm = norm]

MarkPtrDirty(s, h) ==
  [s EXCEPT !.gpr[h.r].dirty = TRUE, !.gpr[h.r].norm = FALSE]

\* Every register is written back to the guest context (SW stores the low
\* 32 bits) and unmapped.
FlushAll(s) ==
  [s EXCEPT !.gpr = [r \in DOMAIN s.gpr |->
      [loc |-> "mem", val |-> SExt32(ZExt32(GuestVal(s.gpr[r]))),
       norm |-> FALSE, dirty |-> FALSE]]]

\* The fallback compiler: flushes the cache and leaves the instruction to
\* the interpreter, whose result s.res for the destination lands in memory.
CompIR_Generic(s, i) ==
  LET f == FlushAll(s)
  IN [f EXCEPT !.generic = s.generic + 1,
               !.gpr[i.dest].val = SExt32(ZExt32(s.res))]

\* A failed _assert_msg_ is fatal: translation stops with the diagnostic.
AssertMsg(s, cond, op) ==
  IF cond THEN s ELSE [s EXCEPT !.aborted = TRUE, !.diag = op]

INVALIDOP_NoAssert(s, i) == CompIR_Generic(s, i)

\* #define INVALIDOP { _assert_msg_(false, ...); CompIR_Generic(inst); return; }
INVALIDOP(s, i) ==
  LET a == AssertMsg(s, FALSE, i.op)
  IN IF a.aborted THEN a ELSE CompIR_Generic(a, i)

----------------------------------------------------------------------------
(* IR instructions: [op, dest, src1, src2, constant] *)

ArithOps == {"Add", "Sub", "AddConst", "SubConst", "Neg"}
LogicOps == {"And", "Or", "Xor", "AndConst", "OrConst", "XorConst", "Not"}
AssignOps == {"Mov", "Ext8to32", "Ext16to32"}
BitsOps == {"ReverseBits", "BSwap16", "BSwap32", "Clz"}
ShiftOps == {"Shl", "Shr", "Sar", "Ror", "ShlImm", "ShrImm", "SarImm", "RorImm"}
CompareOps == {"Slt", "SltConst", "SltU", "SltUConst"}
CondAssignOps == {"MovZ", "MovNZ", "Max", "Min"}
HiLoOps == {"MtLo", "MtHi", "MfLo", "MfHi"}
MultOps == {"Mult", "MultU", "Madd", "MaddU", "Msub", "MsubU"}
DivOps == {"Div", "DivU"}

InImmRange_OffByOne(c) == S32(c) >= -2048 /\ S32(c) <= 2048

\* (int32_t)inst.constant >= -2048 && (int32_t)inst.constant <= 2047
InImmRange(c) == S32(c) >= -2048 /\ S32(c) <= 2047

----------------------------------------------------------------------------
(* CompIR_Arith *)

SubConstRewrite_NoNegate(i) ==
  IF i.op = "SubConst" /\ S32(i.constant) >= -2047 /\ S32(i.constant) <= 2048
  THEN [i EXCEPT !.op = "AddConst"]
  ELSE i

SubConstRewrite_SameRange(i) ==
  IF i.op = "SubConst" /\ S32(i.constant) >= -2048 /\ S32(i.constant) <= 2047
  THEN [i EXCEPT !.op = "AddConst", !.constant = Neg32(i.constant)]
  ELSE i

\* RISC-V only adds signed immediates, so a small enough subtract becomes an add.
SubConstRewrite(i) ==
  IF i.op = "SubConst" /\ S32(i.constant) >= -2047 /\ S32(i.constant) <= 2048
  THEN [i EXCEPT !.op = "AddConst", !.constant = Neg32(i.constant)]
  ELSE i

Arith_Add(s, i) ==
  ADDW(MapDirtyInIn(s, i.dest, i.src1, i.src2, AVOID_LOAD_MARK_NORM32),
       R(i.dest), R(i.src1), R(i.src2))

Arith_Sub(s, i) ==
  SUBW(MapDirtyInIn(s, i.dest, i.src1, i.src2, AVOID_LOAD_MARK_NORM32),
       R(i.dest), R(i.src1), R(i.src2))

Arith_AddConstImm(s, i) ==
  ADDIW(MapDirtyIn(s, i.dest, i.src1, AVOID_LOAD_MARK_NORM32),
        R(i.dest), R(i.src1), i.constant)

Arith_AddConstPtr_FallThrough(s, i) ==
  Arith_AddConstImm(
    ADDI(MarkPtrDirty(s, RPtr(i.dest)), RPtr(i.dest), RPtr(i.dest), i.constant),
    i)

\* The pointer path: typical of stack pointer updates.
Arith_AddConstPtr(s, i) ==
  ADDI(MarkPtrDirty(s, RPtr(i.dest)), RPtr(i.dest), RPtr(i.dest), i.constant)

Arith_AddConstScratch(s, i) ==
  LET a == MapDirtyIn(s, i.dest, i.src1, AVOID_LOAD_MARK_NORM32)
      b == LI(a, SCRATCH1, i.constant)
  IN ADDW(b, R(i.dest), R(i.src1), SCRATCH1)

UsesPtrPath_NoConfig(s, i) == IsMappedAsPointer(s, i.src1) /\ i.dest = i.src1

UsesPtrPath(s, i) ==
  IsMappedAsPointer(s, i.src1) /\ i.dest = i.src1 /\ s.allowPtrMath

Arith_AddConst(s, i) ==
  IF InImmRange(i.constant)
  THEN IF UsesPtrPath(s, i) THEN Arith_AddConstPtr(s, i)
       ELSE Arith_AddConstImm(s, i)
  ELSE Arith_AddConstScratch(s, i)

Arith_SubConst(s, i) ==
  LET a == MapDirtyIn(s, i.dest, i.src1, AVOID_LOAD_MARK_NORM32)
      b == LI(a, SCRATCH1, i.constant)
  IN SUBW(b, R(i.dest), R(i.src1), SCRATCH1)

Arith_Neg(s, i) ==
  SUBW(MapDirtyIn(s, i.dest, i.src1, AVOID_LOAD_MARK_NORM32),
       R(i.dest), R_ZERO, R(i.src1))

CompIR_Arith(s0, i0) ==
  LET i == SubConstRewrite(i0)
      s == [s0 EXCEPT !.inst = i]
  IN CASE i.op = "Add" -> Arith_Add(s, i)
       [] i.op = "Sub" -> Arith_Sub(s, i)
       [] i.op = "AddConst" -> Arith_AddConst(s, i)
       [] i.op = "SubConst" -> Arith_SubConst(s, i)
       [] i.op = "Neg" -> Arith_Neg(s, i)
       [] OTHER -> INVALIDOP(s, i)

----------------------------------------------------------------------------
(* CompIR_Logic *)

Logic_And(s, i) ==
  AND(MapDirtyInIn(s, i.dest, i.src1, i.src2, AVOID_LOAD),
      R(i.dest), R(i.src1), R(i.src2))

Logic_Or(s, i) ==
  LET a == MapDirtyInIn(s, i.dest, i.src1, i.src2, AVOID_LOAD)
      b == OR(a, R(i.dest), R(i.src1), R(i.src2))
  IN \* If both were normalized before, the result is normalized.
     IF IsNormalized32(b, i.src1) /\ IsNormalized32(b, i.src2)
     THEN MarkDirty(b, R(i.dest), TRUE)
     ELSE b

Logic_Xor(s, i) ==
  XOR(MapDirtyInIn(s, i.dest, i.src1, i.src2, AVOID_LOAD),
      R(i.dest), R(i.src1), R(i.src2))

\* inst.constant & 0x80000000
Bit31(c) == c[2] >= H16

Logic_AndConstImm(s, i) ==
  ANDI(MapDirtyIn(s, i.dest, i.src1, AVOID_LOAD),
       R(i.dest), R(i.src1), i.constant)

Logic_AndConstScratch(s, i) ==
  LET a == MapDirtyIn(s, i.dest, i.src1, AVOID_LOAD)
      b == LI(a, SCRATCH1, i.constant)
  IN AND(b, R(i.dest), R(i.src1), SCRATCH1)

Logic_AndConstEmit(s, i) ==
  IF InImmRange(i.constant) THEN Logic_AndConstImm(s, i)
  ELSE Logic_AndConstScratch(s, i)

Logic_AndConst_MarkAlways(s, i) ==
  MarkDirty(Logic_AndConstEmit(s, i), R(i.dest), TRUE)

Logic_AndConst(s, i) ==
  LET b == Logic_AndConstEmit(s, i)
  IN \* If the sign bits aren't cleared, and it was normalized before - it still is.
     IF Bit31(i.constant) /\ IsNormalized32(b, i.src1)
     THEN MarkDirty(b, R(i.dest), TRUE)
     \* Otherwise, if we cleared the sign bits, it's naturally normalized.
     ELSE IF ~Bit31(i.constant) THEN MarkDirty(b, R(i.dest), TRUE)
     ELSE b

Logic_OrConstImm(s, i) ==
  ORI(MapDirtyIn(s, i.dest, i.src1, AVOID_LOAD),
      R(i.dest), R(i.src1), i.constant)

Logic_OrConstScratch(s, i) ==
  LET a == MapDirtyIn(s, i.dest, i.src1, AVOID_LOAD)
      l == LI(a, SCRATCH1, i.constant)
  IN OR(l, R(i.dest), R(i.src1), SCRATCH1)

Logic_OrConst(s, i) ==
  LET b == IF InImmRange(i.constant) THEN Logic_OrConstImm(s, i)
           ELSE Logic_OrConstScratch(s, i)
  IN \* Since our constant is normalized, oring its bits in won't hurt normalization.
     IF IsNormalized32(b, i.src1) THEN MarkDirty(b, R(i.dest), TRUE) ELSE b

Logic_XorConstImm(s, i) ==
  XORI(MapDirtyIn(s, i.dest, i.src1, AVOID_LOAD),
       R(i.dest), R(i.src1), i.constant)

Logic_XorConstScratch(s, i) ==
  LET a == MapDirtyIn(s, i.dest, i.src1, AVOID_LOAD)
      l == LI(a, SCRATCH1, i.constant)
  IN XOR(l, R(i.dest), R(i.src1), SCRATCH1)

Logic_XorConst(s, i) ==
  IF InImmRange(i.constant) THEN Logic_XorConstImm(s, i)
  ELSE Logic_XorConstScratch(s, i)

Logic_Not(s, i) ==
  NOT(MapDirtyIn(s, i.dest, i.src1, AVOID_LOAD), R(i.dest), R(i.src1))

CompIR_Logic(s, i) ==
  CASE i.op = "And" -> Logic_And(s, i)
    [] i.op = "Or" -> Logic_Or(s, i)
    [] i.op = "Xor" -> Logic_Xor(s, i)
    [] i.op = "AndConst" -> Logic_AndConst(s, i)
    [] i.op = "OrConst" -> Logic_OrConst(s, i)
    [] i.op = "XorConst" -> Logic_XorConst(s, i)
    [] i.op = "Not" -> Logic_Not(s, i)
    [] OTHER -> INVALIDOP(s, i)

----------------------------------------------------------------------------
(* CompIR_Assign *)

Assign_Mov(s, i) ==
  LET a == MapDirtyIn(s, i.dest, i.src1, AVOID_LOAD)
      b == MV(a, R(i.dest), R(i.src1))
  IN MarkDirty(b, R(i.dest), IsNormalized32(b, i.src1))

\* The shift pair used without Zbb: SLLI by 32 - bits, SRAIW by the same.
Assign_ExtShifts(s, i, sh) ==
  LET a == MapDirtyIn(s, i.dest, i.src1, AVOID_LOAD_MARK_NORM32)
      b == SLLI(a, R(i.dest), R(i.src1), sh)
  IN SRAIW(b, R(i.dest), R(i.dest), sh)

Assign_Ext8Zbb(s, i) ==
  SEXT_B(MapDirtyIn(s, i.dest, i.src1, AVOID_LOAD_MARK_NORM32),
         R(i.dest), R(i.src1))

Assign_Ext16Zbb(s, i) ==
  SEXT_H(MapDirtyIn(s, i.dest, i.src1, AVOID_LOAD_MARK_NORM32),
         R(i.dest), R(i.src1))

Assign_Ext8to32(s, i) ==
  IF s.zbb THEN Assign_Ext8Zbb(s, i) ELSE Assign_ExtShifts(s, i, 24)

Assign_Ext16to32(s, i) ==
  IF s.zbb THEN Assign_Ext16Zbb(s, i) ELSE Assign_ExtShifts(s, i, 16)

CompIR_Assign(s, i) ==
  CASE i.op = "Mov" -> Assign_Mov(s, i)
    [] i.op = "Ext8to32" -> Assign_Ext8to32(s, i)
    [] i.op = "Ext16to32" -> Assign_Ext16to32(s, i)
    [] OTHER -> INVALIDOP(s, i)

----------------------------------------------------------------------------
(* CompIR_Bits and the routines that defer every opcode to CompIR_Generic *)

Bits_BSwap32Zbb(s, i) ==
  LET a == MapDirtyIn(s, i.dest, i.src1, AVOID_LOAD)
      b == REV8(a, R(i.dest), R(i.src1))
  IN IF XLEN >= 64
     THEN \* REV8 swaps the entire register, so get the 32 highest bits.
          MarkDirty(SRAI(b, R(i.dest), R(i.dest), XLEN - 32), R(i.dest), TRUE)
     ELSE b

Bits_BSwap32_IgnoreZbb(s, i) == Bits_BSwap32Zbb(s, i)

Bits_BSwap32(s, i) ==
  IF s.zbb THEN Bits_BSwap32Zbb(s, i) ELSE CompIR_Generic(s, i)

CompIR_Bits(s, i) ==
  CASE i.op = "ReverseBits" -> CompIR_Generic(s, i)
    [] i.op = "BSwap16" -> CompIR_Generic(s, i)
    [] i.op = "BSwap32" -> Bits_BSwap32(s, i)
    [] i.op = "Clz" -> CompIR_Generic(s, i)
    [] OTHER -> INVALIDOP(s, i)

CompIR_Shift(s, i) ==
  IF i.op \in ShiftOps THEN CompIR_Generic(s, i) ELSE INVALIDOP(s, i)

CompIR_Compare(s, i) ==
  IF i.op \in CompareOps THEN CompIR_Generic(s, i) ELSE INVALIDOP(s, i)

CompIR_CondAssign(s, i) ==
  IF i.op \in CondAssignOps THEN CompIR_Generic(s, i) ELSE INVALIDOP(s, i)

CompIR_HiLo(s, i) ==
  IF i.op \in HiLoOps THEN CompIR_Generic(s, i) ELSE INVALIDOP(s, i)

CompIR_Mult(s, i) ==
  IF i.op \in MultOps THEN CompIR_Generic(s, i) ELSE INVALIDOP(s, i)

CompIR_Div(s, i) ==
  IF i.op \in DivOps THEN CompIR_Generic(s, i) ELSE INVALIDOP(s, i)

----------------------------------------------------------------------------
(* Inputs *)

\* Virtual registers of the block being translated.
Regs == {3, 4, 5}

\* 32-bit guest values: 0x123480F8, 0xFFFFFFFF, 0x00000000, 0x80000000.
GuestA == <<33016, 4660>>
GuestB == <<65535, 65535>>
GuestC == <<0, 0>>
GuestD == <<0, 32768>>

\* 64-bit host values that are not the sign extension of their low half:
\* 0x00000001_80000000.
RawA == <<0, 32768, 1, 0>>

Entry(loc, val, norm, dirty) ==
  [loc |-> loc, val |-> val, norm |-> norm, dirty |-> dirty]

\* The states one register can be in when a lowering routine is entered:
\* unmapped; mapped and flagged normalized (then it is sign-extended), clean
\* after a load or dirty after an earlier *W instruction; mapped, dirty and
\* not flagged, with upper bits an earlier 64-bit instruction left; or
\* mapped as a pointer.
InitEntries ==
  {Entry("mem", SExt32(ZExt32(GuestA)), FALSE, FALSE)}
  \cup {Entry("reg", SExt32(ZExt32(GuestB)), TRUE, FALSE)}
  \cup {Entry("reg", SExt32(ZExt32(GuestA)), TRUE, TRUE)}
  \cup {Entry("reg", RawA, FALSE, TRUE)}
  \cup {Entry("ptr", Add64(MemBase, ZExt32(g)), FALSE, FALSE) : g \in {GuestC, GuestB}}

\* IR constants around the 12-bit immediate window, 3000 and 0x80000000.
Constants ==
  {FromS32(n) : n \in {-2049, -2048, -2047, 2047, 2048, 2049, 3000}}
  \cup {GuestD}

\* What the interpreter may leave in the destination of a deferred opcode.
GenericResults == {GuestD}

NoInst == [op |-> "None", dest |-> 0, src1 |-> 0, src2 |-> 0, constant |-> NoImm]

Insts3(ops) ==
  {[op |-> o, dest |-> d, src1 |-> a, src2 |-> b, constant |-> NoImm] :
     o \in ops, d \in Regs, a \in Regs, b \in Regs}

Insts2(ops) ==
  {[op |-> o, dest |-> d, src1 |-> a, src2 |-> 0, constant |-> NoImm] :
     o \in ops, d \in Regs, a \in Regs}

InstsC(ops) ==
  {[op |-> o, dest |-> d, src1 |-> a, src2 |-> 0, constant |-> c] :
     o \in ops, d \in Regs, a \in Regs, c \in Constants}

\* Each routine is also handed one opcode of another group (its default case).
ArithInsts ==
  Insts3({"Add", "Sub"}) \cup InstsC({"AddConst", "SubConst"})
  \cup Insts2({"Neg"}) \cup Insts2({"Mov"})
LogicInsts ==
  Insts3({"And", "Or", "Xor"}) \cup InstsC({"AndConst", "OrConst", "XorConst"})
  \cup Insts2({"Not"}) \cup Insts2({"Neg"})
AssignInsts == Insts2(AssignOps) \cup Insts2({"Not"})
BitsInsts == Insts2(BitsOps) \cup Insts2({"Mov"})
ShiftInsts == Insts2(ShiftOps) \cup Insts2({"Clz"})
CompareInsts == Insts2(CompareOps) \cup Insts2({"Shl"})
CondAssignInsts == Insts2(CondAssignOps) \cup Insts2({"Slt"})
HiLoInsts == Insts2(HiLoOps) \cup Insts2({"Max"})
MultInsts == Insts2(MultOps) \cup Insts2({"MfHi"})
DivInsts == Insts2(DivOps) \cup Insts2({"Mult"})

----------------------------------------------------------------------------
(* The state machine.  gpr is the register cache with the host values,   *)
(* pre the cache on entry to the last lowering call, inst the instruction *)
(* it was handed and lowered the instruction after the peephole rewrite,  *)
(* code the host instructions it emitted, generic and maps its calls of   *)
(* CompIR_Generic and of MapDirtyIn / MapDirtyInIn.                       *)

Init ==
  /\ gpr \in [Regs -> InitEntries]
  /\ scratch1 = Zero64
  /\ zbb \in BOOLEAN
  /\ allowPtrMath \in BOOLEAN
  /\ pre = gpr
  /\ inst = NoInst
  /\ lowered = NoInst
  /\ code = <<>>
  /\ generic = 0
  /\ maps = 0
  /\ aborted = FALSE
  /\ diag = "None"
  /\ routine = "None"
  /\ count = 0

\* The state of a lowering call on entry.
Start(i, res) ==
  [gpr |-> gpr, scratch1 |-> scratch1, code |-> <<>>, generic |-> 0,
   maps |-> 0, aborted |-> FALSE, diag |-> "None", inst |-> i, res |-> res,
   zbb |-> zbb, allowPtrMath |-> allowPtrMath]

\* A routine may be called while translation goes on and the block has room.
CanLower == ~aborted /\ count < MaxInsts

Commit(name, i, s) ==
  /\ gpr' = s.gpr
  /\ scratch1' = s.scratch1
  /\ pre' = gpr
  /\ inst' = i
  /\ lowered' = s.inst
  /\ code' = s.code
  /\ generic' = s.generic
  /\ maps' = s.maps
  /\ aborted' = s.aborted
  /\ diag' = s.diag
  /\ routine' = name
  /\ count' = count + 1
  /\ UNCHANGED <<zbb, allowPtrMath>>

Arith ==
  /\ CanLower
  /\ \E i \in ArithInsts : Commit("Arith", i, CompIR_Arith(Start(i, NoImm), i))

Logic ==
  /\ CanLower
  /\ \E i \in LogicInsts : Commit("Logic", i, CompIR_Logic(Start(i, NoImm), i))

Assign ==
  /\ CanLower
  /\ \E i \in AssignInsts : Commit("Assign", i, CompIR_Assign(Start(i, NoImm), i))

Bits ==
  /\ CanLower
  /\ \E i \in BitsInsts, res \in GenericResults :
       Commit("Bits", i, CompIR_Bits(Start(i, res), i))

Shift ==
  /\ CanLower
  /\ \E i \in ShiftInsts, res \in GenericResults :
       Commit("Shift", i, CompIR_Shift(Start(i, res), i))

Compare ==
  /\ CanLower
  /\ \E i \in CompareInsts, res \in GenericResults :
       Commit("Compare", i, CompIR_Compare(Start(i, res), i))

CondAssign ==
  /\ CanLower
  /\ \E i \in CondAssignInsts, res \in GenericResults :
       Commit("CondAssign", i, CompIR_CondAssign(Start(i, res), i))

HiLo ==
  /\ CanLower
  /\ \E i \in HiLoInsts, res \in GenericResults :
       Commit("HiLo", i, CompIR_HiLo(Start(i, res), i))

Mult ==
  /\ CanLower
  /\ \E i \in MultInsts, res \in GenericResults :
       Commit("Mult", i, CompIR_Mult(Start(i, res), i))

Div ==
  /\ CanLower
  /\ \E i \in DivInsts, res \in GenericResults :
       Commit("Div", i, CompIR_Div(Start(i, res), i))

Next ==
  \/ Arith
  \/ Logic
  \/ Assign
  \/ Bits
  \/ Shift
  \/ Compare
  \/ CondAssign
  \/ HiLo
  \/ Mult
  \/ Div

Spec == Init /\ [][Next]_vars

----------------------------------------------------------------------------
(* Properties *)

Done == routine # "None"

\* The lowering call's entry state, rebuilt from the recorded cache.
EntryState ==
  [gpr |-> pre, scratch1 |-> Zero64, code |-> <<>>, generic |-> 0,
   maps |-> 0, aborted |-> FALSE, diag |-> "None", inst |-> inst,
   res |-> NoImm, zbb |-> zbb, allowPtrMath |-> allowPtrMath]

PreCache == [gpr |-> pre]
PostCache == [gpr |-> gpr]

GroupOps(name) ==
  CASE name = "Arith" -> ArithOps
    [] name = "Logic" -> LogicOps
    [] name = "Assign" -> AssignOps
    [] name = "Bits" -> BitsOps
    [] name = "Shift" -> ShiftOps
    [] name = "Compare" -> CompareOps
    [] name = "CondAssign" -> CondAssignOps
    [] name = "HiLo" -> HiLoOps
    [] name = "Mult" -> MultOps
    [] name = "Div" -> DivOps
    [] OTHER -> {}

HostInst(m, rd, rs1, rs2, imm) ==
  [m |-> m, rd |-> rd, rs1 |-> rs1, rs2 |-> rs2, imm |-> imm]

WritesScratch1 == \E k \in 1..Len(code) : code[k].rd = SCRATCH1

\* C1: lowering SubConst(dest, src, C) leaves (src - C) mod 2^32 in dest,
\* whether the rewrite to AddConst fires or not, and the result is the one
\* the LI SCRATCH1, C; SUBW sequence gives from the same entry state.
C1_SubConstExact ==
  (routine = "Arith" /\ inst.op = "SubConst") =>
    /\ GuestVal(gpr[inst.dest])
         = Sub32(GuestVal(pre[inst.src1]), inst.constant)
    /\ GuestVal(gpr[inst.dest])
         = GuestVal(Arith_SubConst(EntryState, inst).gpr[inst.dest])

\* The rewrite fired at C = 2048 and ADDIW -2048 was emitted on a source
\* whose value wraps below zero.
C1_Witness ==
  /\ routine = "Arith" /\ inst.op = "SubConst" /\ lowered.op = "AddConst"
  /\ S32(inst.constant) = 2048
  /\ Len(code) = 1 /\ code[1].m = "ADDIW"
  /\ GuestVal(pre[inst.src1]) = GuestC
  /\ GuestVal(gpr[inst.dest]) = FromS32(-2048)

ConstOps == {"AddConst", "SubConst", "AndConst", "OrConst", "XorConst"}

ImmMnemonics(op) ==
  CASE op = "AddConst" -> {"ADDI", "ADDIW"}
    [] op = "SubConst" -> {"ADDI", "ADDIW"}
    [] op = "AndConst" -> {"ANDI"}
    [] op = "OrConst" -> {"ORI"}
    [] op = "XorConst" -> {"XORI"}

RegMnemonic(op) ==
  CASE op = "AddConst" -> "ADDW"
    [] op = "SubConst" -> "SUBW"
    [] op = "AndConst" -> "AND"
    [] op = "OrConst" -> "OR"
    [] op = "XorConst" -> "XOR"

\* One immediate instruction and no write of SCRATCH1.
ImmForm == Len(code) = 1 /\ code[1].m \in ImmMnemonics(inst.op) /\ ~WritesScratch1

\* LI SCRATCH1, C followed by the register-register instruction.
ScratchForm ==
  /\ Len(code) = 2
  /\ code[1] = HostInst("LI", SCRATCH1, NoReg, NoReg, inst.constant)
  /\ code[2] = HostInst(RegMnemonic(inst.op), R(inst.dest), R(inst.src1),
                        SCRATCH1, NoImm)

\* The scratch-materialize form of a constant-operand opcode.
ScratchLowering(s, i) ==
  CASE i.op = "AddConst" -> Arith_AddConstScratch(s, i)
    [] i.op = "SubConst" -> Arith_SubConst(s, i)
    [] i.op = "AndConst" -> Logic_AndConstScratch(s, i)
    [] i.op = "OrConst" -> Logic_OrConstScratch(s, i)
    [] i.op = "XorConst" -> Logic_XorConstScratch(s, i)

SameAsScratchForm ==
  GuestVal(gpr[inst.dest]) = GuestVal(ScratchLowering(EntryState, inst).gpr[inst.dest])

ConstOpLowered == Done /\ ~aborted /\ inst.op \in ConstOps

\* C2 as stated: every constant-operand opcode uses the immediate form
\* exactly for -2048 <= C <= 2047 and the scratch form otherwise, with equal
\* results.
C2_Original ==
  ConstOpLowered =>
    /\ InImmRange(inst.constant) => ImmForm
    /\ ~InImmRange(inst.constant) => ScratchForm
    /\ SameAsScratchForm

\* C2 amended: AddConst, AndConst, OrConst and XorConst use the immediate
\* form exactly for -2048 <= C <= 2047; SubConst uses it (an add of -C)
\* exactly for -2047 <= C <= 2048; otherwise the scratch form is used; and
\* the result always equals the scratch form's result.
C2_ImmediateWindow ==
  ConstOpLowered =>
    LET c == S32(inst.constant)
        imm == IF inst.op = "SubConst" THEN c >= -2047 /\ c <= 2048
               ELSE c >= -2048 /\ c <= 2047
    IN /\ imm => ImmForm
       /\ ~imm => ScratchForm
       /\ SameAsScratchForm

\* SubConst at C = 2048 lowered to the single ADDIW.
C2_Witness ==
  /\ ConstOpLowered /\ inst.op = "SubConst" /\ S32(inst.constant) = 2048
  /\ ImmForm /\ code[1].m = "ADDIW"

\* C3 as stated: Or / And of two operands flagged normalized leaves the
\* destination flagged normalized.
C3_OrAndNormalized ==
  (routine = "Logic" /\ inst.op \in {"And", "Or"}
     /\ IsNormalized32(PreCache, inst.src1) /\ IsNormalized32(PreCache, inst.src2))
    => IsNormalized32(PostCache, inst.dest)

\* C4 as stated: AndConst leaves dest flagged normalized when bit 31 of C is
\* clear, and when it is set and src1 was flagged normalized.
C4_AndConstNormalized ==
  (routine = "Logic" /\ inst.op = "AndConst"
     /\ (~Bit31(inst.constant) \/ IsNormalized32(PreCache, inst.src1)))
    => IsNormalized32(PostCache, inst.dest)

PtrPathCode ==
  code = <<HostInst("ADDI", RPtr(inst.dest), RPtr(inst.dest), NoReg, inst.constant)>>

GeneralAddCode ==
  \/ code = <<HostInst("ADDIW", R(inst.dest), R(inst.src1), NoReg, inst.constant)>>
  \/ code = <<HostInst("LI", SCRATCH1, NoReg, NoReg, inst.constant),
              HostInst("ADDW", R(inst.dest), R(inst.src1), SCRATCH1, NoImm)>>

\* C5: AddConst takes the pointer path (one ADDI on the pointer register, no
\* mapping call, no SCRATCH1) exactly when dest = src1, src1 is mapped as a
\* pointer, pointer math is allowed and C is in -2048..2047; the register
\* then stays a pointer and is dirty; otherwise the general path is used.
C5_PointerPath ==
  (routine = "Arith" /\ inst.op = "AddConst") =>
    LET c == S32(inst.constant)
        cond == /\ inst.dest = inst.src1
                /\ pre[inst.src1].loc = "ptr"
                /\ allowPtrMath
                /\ c >= -2048 /\ c <= 2047
    IN /\ cond <=> (PtrPathCode /\ maps = 0)
       /\ cond => /\ gpr[inst.dest].loc = "ptr"
                  /\ gpr[inst.dest].dirty
                  /\ ~WritesScratch1
       /\ ~cond => /\ GeneralAddCode
                   /\ maps = 1
                   /\ gpr[inst.dest].loc = "reg"

\* AddConst(dest = r4, src1 = r4, 0xFFFFF800) on a pointer-mapped r4.
C5_Witness ==
  /\ routine = "Arith" /\ inst.op = "AddConst"
  /\ inst.dest = 4 /\ inst.src1 = 4 /\ inst.constant = <<63488, 65535>>
  /\ pre[4].loc = "ptr" /\ allowPtrMath
  /\ PtrPathCode /\ gpr[4].loc = "ptr" /\ gpr[4].dirty

\* The case in which the pointer path fires, also for a rewritten SubConst.
PtrPathTaken ==
  /\ routine = "Arith" /\ lowered.op = "AddConst"
  /\ lowered.dest = lowered.src1
  /\ pre[lowered.src1].loc = "ptr"
  /\ allowPtrMath
  /\ S32(lowered.constant) >= -2048 /\ S32(lowered.constant) <= 2047

\* C6: after the pointer path the guest value of the register is the one the
\* general ADDIW path leaves, (v + C) mod 2^32.
C6_PointerEquivalence ==
  PtrPathTaken =>
    /\ GuestVal(gpr[lowered.dest])
         = GuestVal(Arith_AddConstImm(EntryState, lowered).gpr[lowered.dest])
    /\ GuestVal(gpr[lowered.dest])
         = Add32(GuestVal(pre[lowered.src1]), lowered.constant)

\* The pointer path adding -2048 to guest value 0, which wraps below zero.
C6_Witness ==
  /\ PtrPathTaken
  /\ Len(code) = 1 /\ code[1].m = "ADDI" /\ code[1].rd = RPtr(lowered.dest)
  /\ GuestVal(pre[lowered.dest]) = GuestC
  /\ S32(lowered.constant) = -2048
  /\ GuestVal(gpr[lowered.dest]) = <<63488, 65535>>

AlwaysGenericOps ==
  {"ReverseBits", "BSwap16", "Clz"} \cup ShiftOps \cup CompareOps
  \cup CondAssignOps \cup HiLoOps \cup MultOps \cup DivOps

\* C7: an opcode of the routine's group is lowered either by emitted host
\* instructions or by exactly one CompIR_Generic call, never both or neither;
\* the deferred opcodes go to CompIR_Generic without a mapping call and
\* BSwap32 goes there exactly when Zbb is absent.
C7_FastPathOrGeneric ==
  (Done /\ inst.op \in GroupOps(routine)) =>
    /\ ~aborted
    /\ generic \in {0, 1}
    /\ (Len(code) > 0) <=> (generic = 0)
    /\ inst.op \in AlwaysGenericOps => generic = 1 /\ maps = 0 /\ code = <<>>
    /\ inst.op = "BSwap32" => (generic = 1 <=> ~zbb)
    /\ inst.op \in (GroupOps(routine) \ (AlwaysGenericOps \cup {"BSwap32"}))
         => generic = 0

\* BSwap32 without Zbb handed to CompIR_Generic.
C7_Witness ==
  /\ routine = "Bits" /\ inst.op = "BSwap32" /\ ~zbb
  /\ generic = 1 /\ code = <<>> /\ maps = 0

C9_RewriteWindow ==
  (routine = "Arith" /\ inst.op = "SubConst") =>
    LET n == S32(Neg32(inst.constant))
        fits == inst.constant # GuestD /\ n >= -2048 /\ n <= 2047
    IN /\ fits <=> (S32(inst.constant) >= -2047 /\ S32(inst.constant) <= 2048)
       /\ fits => /\ lowered.op = "AddConst"
                  /\ S32(lowered.constant) + S32(inst.constant) = 0
                  /\ lowered.dest = inst.dest /\ lowered.src1 = inst.src1
       /\ ~fits => /\ lowered = inst
                   /\ code = <<HostInst("LI", SCRATCH1, NoReg, NoReg, inst.constant),
                               HostInst("SUBW", R(inst.dest), R(inst.src1),
                                        SCRATCH1, NoImm)>>

\* SubConst(dest = r4, src1 = r3, 3000) kept as LI; SUBW.
C9_Witness ==
  /\ routine = "Arith" /\ inst.op = "SubConst"
  /\ inst.dest = 4 /\ inst.src1 = 3 /\ S32(inst.constant) = 3000
  /\ lowered.op = "SubConst"
  /\ Len(code) = 2 /\ code[1].m = "LI" /\ code[2].m = "SUBW"

\* C10: every register flagged normalized holds the sign extension of its
\* low 32 bits, and Ext8to32 / Ext16to32 leave the value SEXT_B / SEXT_H
\* give, with or without Zbb.
C10_NormalizedSound ==
  /\ \A r \in Regs : IsNormalized32(PostCache, r) => IsSExt32(gpr[r].val)
  /\ (routine = "Assign" /\ inst.op = "Ext8to32") =>
       gpr[inst.dest].val = Assign_Ext8Zbb(EntryState, inst).gpr[inst.dest].val
  /\ (routine = "Assign" /\ inst.op = "Ext16to32") =>
       gpr[inst.dest].val = Assign_Ext16Zbb(EntryState, inst).gpr[inst.dest].val

\* Ext8to32 without Zbb of a value whose low byte is negative and whose
\* upper bits are not: the destination is flagged and holds 0xFFFF...F8.
C10_Witness ==
  /\ routine = "Assign" /\ inst.op = "Ext8to32" /\ ~zbb
  /\ Len(code) = 2 /\ code[1].m = "SLLI" /\ code[2].m = "SRAIW"
  /\ GuestVal(pre[inst.src1]) = GuestA
  /\ IsNormalized32(PostCache, inst.dest)
  /\ gpr[inst.dest].val = <<65528, 65535, 65535, 65535>>

====
